---- MODULE Spec2Model ----
(***************************************************************************)
(* A model of the umai backend and frontend glue:                          *)
(*   - AppConfigService (typed environment reader with defaulting),        *)
(*   - SecurityMiddleware (host allow-list) and the bootstrap / shutdown   *)
(*     sequence of main.ts,                                                *)
(*   - S3Service (bucket bootstrap, content-type sanitisation, uploads),   *)
(*   - the frontend useGetMenu query hook.                                 *)
(* JavaScript strings are modelled as sequences of one-character strings,  *)
(* so that trim / split / toLowerCase are computed character by character. *)
(***************************************************************************)
EXTENDS Naturals, Integers, Sequences, FiniteSets, TLC

VARIABLES
  env,          \* process environment: key -> tagged value
  nodeEnvRes,   \* last value read from AppConfigService.nodeEnv
  isProdRes,    \* last value read from AppConfigService.isProduction
  hostsRes,     \* last value read from AppConfigService.security.allowedHosts
  bpc,          \* position of bootstrap() in main.ts
  closeState,   \* app.close(): "open", "closing" or "closed"
  exited,       \* "no", or the way the process exited: "exit0", "exit1"
  lastSignal,   \* the signal whose handler ran, or "none"
  reqLog,       \* requests that went through SecurityMiddleware.use, with outcome
  s3Client,     \* the S3Client built by the S3Service constructor, or NoClient
  s3pc,         \* position of S3Service: constructor, onModuleInit, serving
  calls,        \* object-storage calls issued by onModuleInit, in order
  inFlight,     \* object-storage calls issued and not yet completed
  results,      \* completed calls of onModuleInit with their outcome, in order
  errors,       \* messages logged through logger.error
  sent,         \* uploads sent by uploadObject: content type given and sent
  idRef,        \* frontend: value of the reactive restaurantId ref
  hook,         \* frontend: the mounted useGetMenu call, or NoHook
  fetching,     \* frontend: the queryFn call in flight, or Idle
  cache         \* frontend: query cache, query key -> menu or NoData

cfgVars == <<nodeEnvRes, isProdRes, hostsRes>>
beVars == <<bpc, closeState, exited, lastSignal, reqLog>>
s3Vars == <<s3Client, s3pc, calls, inFlight, results, errors, sent>>
menuVars == <<idRef, hook, fetching, cache>>
vars == <<env, cfgVars, beVars, s3Vars, menuVars>>

----------------------------------------------------------------------------
(* Bounds of the model *)

MaxPad == 1      \* longest run of blanks put around an environment value
MaxHosts == 2    \* most comma-separated entries in SECURITY_ALLOWED_HOSTS
MaxReqs == 2     \* most requests served in one run of the backend
MaxUploads == 1  \* most uploads after the object-storage bootstrap

----------------------------------------------------------------------------
(* JavaScript values: a tag (typeof) and a payload *)

Undef == [t |-> "undefined"]
Str(s) == [t |-> "string", v |-> s]
Bool(b) == [t |-> "boolean", v |-> b]
List(l) == [t |-> "list", v |-> l]
Unread == [t |-> "unread"]

(* String literals of the source, as character sequences *)
S_development == <<"d", "e", "v", "e", "l", "o", "p", "m", "e", "n", "t">>
S_production == <<"p", "r", "o", "d", "u", "c", "t", "i", "o", "n">>
S_true == <<"t", "r", "u", "e">>
S_yes == <<"y", "e", "s">>
S_y == <<"y">>
S_on == <<"o", "n">>
S_1 == <<"1">>

S_images == <<"i", "m", "a", "g", "e", "s">>
S_text_html == <<"t", "e", "x", "t", "/", "h", "t", "m", "l">>
S_xhtml == <<"a", "p", "p", "l", "i", "c", "a", "t", "i", "o", "n", "/", "x", "h", "t", "m", "l", "+", "x", "m", "l">>
S_svg == <<"i", "m", "a", "g", "e", "/", "s", "v", "g", "+", "x", "m", "l">>
S_text_xml == <<"t", "e", "x", "t", "/", "x", "m", "l">>
S_app_xml == <<"a", "p", "p", "l", "i", "c", "a", "t", "i", "o", "n", "/", "x", "m", "l">>
S_text_plain == <<"t", "e", "x", "t", "/", "p", "l", "a", "i", "n">>

(* String literals used only as inputs *)
S_image_png == <<"i", "m", "a", "g", "e", "/", "p", "n", "g">>
S_TEXT_HTML == <<"T", "E", "X", "T", "/", "H", "T", "M", "L">>
S_charset == <<"c", "h", "a", "r", "s", "e", "t", "=", "u", "t", "f", "-", "8">>
S_Production == <<"P", "r", "o", "d", "u", "c", "t", "i", "o", "n">>
S_staging == <<"s", "t", "a", "g", "i", "n", "g">>
S_TRUE == <<"T", "R", "U", "E">>
S_false == <<"f", "a", "l", "s", "e">>
S_0 == <<"0">>
S_a_io == <<"a", ".", "i", "o">>
S_b_io == <<"b", ".", "i", "o">>
S_c_io == <<"c", ".", "i", "o">>
S_80 == <<"8", "0">>

----------------------------------------------------------------------------
(* String.prototype helpers *)

UpperLetters == <<"A", "B", "C", "D", "E", "F", "G", "H", "I", "J", "K", "L", "M", "N", "O", "P", "Q", "R", "S", "T", "U", "V", "W", "X", "Y", "Z">>
LowerLetters == <<"a", "b", "c", "d", "e", "f", "g", "h", "i", "j", "k", "l", "m", "n", "o", "p", "q", "r", "s", "t", "u", "v", "w", "x", "y", "z">>

IsSpace(c) == c \in {" ", "\t"}

UpperSet == {UpperLetters[i] : i \in 1..26}

LowerOf == [c \in UpperSet |-> LowerLetters[CHOOSE i \in 1..26 : UpperLetters[i] = c]]

LowerChar(c) == IF c \in UpperSet THEN LowerOf[c] ELSE c

ToLowerCase(s) == [i \in 1..Len(s) |-> LowerChar(s[i])]

RECURSIVE TrimStart(_)
TrimStart(s) ==
  IF s = <<>> THEN s
  ELSE IF IsSpace(Head(s)) THEN TrimStart(Tail(s)) ELSE s

RECURSIVE TrimEnd(_)
TrimEnd(s) ==
  IF s = <<>> THEN s
  ELSE IF IsSpace(s[Len(s)]) THEN TrimEnd(SubSeq(s, 1, Len(s) - 1)) ELSE s

Trim(s) == TrimEnd(TrimStart(s))

(* s.split(sep): "" splits to [""], and n separators give n + 1 pieces *)
RECURSIVE Split(_, _)
Split(s, sep) ==
  IF \A i \in 1..Len(s) : s[i] # sep THEN <<s>>
  ELSE LET i == CHOOSE k \in 1..Len(s) :
                  s[k] = sep /\ \A j \in 1..(k - 1) : s[j] # sep
       IN <<SubSeq(s, 1, i - 1)>> \o Split(SubSeq(s, i + 1, Len(s)), sep)

MapTrim(l) == [i \in 1..Len(l) |-> Trim(l[i])]

(* l.filter(Boolean) on a list of strings: drops the empty strings *)
RECURSIVE FilterBoolean(_)
FilterBoolean(l) ==
  IF l = <<>> THEN <<>>
  ELSE IF Head(l) = <<>> THEN FilterBoolean(Tail(l))
  ELSE <<Head(l)>> \o FilterBoolean(Tail(l))

(* Boolean(x) *)
JsBoolean(x) ==
  CASE x.t = "boolean" -> x.v
    [] x.t = "string" -> x.v # <<>>
    [] OTHER -> FALSE

----------------------------------------------------------------------------
(* AppConfigService *)

EnvKeys ==
  {"NODE_ENVIRONMENT", "SECURITY_ALLOWED_HOSTS", "S3_PATH_STYLE", "S3_IMAGE_PREFIX"}

getRaw_untrimmed(key) ==
  LET raw == env[key] IN
  IF raw.t = "string"
    THEN IF Trim(raw.v) = <<>> THEN Undef ELSE Str(raw.v)
    ELSE raw

getRaw(key) ==
  LET raw == env[key] IN
  IF raw.t = "string"
    THEN LET normalized == Trim(raw.v) IN
         IF normalized = <<>> THEN Undef ELSE Str(normalized)
    ELSE raw

get(key, defaultValue) ==
  LET raw == getRaw(key) IN
  IF raw.t # "undefined" THEN raw
  ELSE IF defaultValue.t # "undefined" THEN defaultValue
  ELSE env[key]

TrueWords == {S_1, S_true, S_yes, S_y, S_on}

getBoolean(key, defaultValue) ==
  LET raw == getRaw(key) IN
  IF raw.t = "boolean" THEN raw.v
  ELSE IF raw.t = "string"
    THEN LET normalized == ToLowerCase(Trim(raw.v)) IN
         IF normalized = <<>> THEN defaultValue ELSE normalized \in TrueWords
  ELSE defaultValue

s3Config ==
  [imagePrefix |-> get("S3_IMAGE_PREFIX", Str(S_images)),
   usePathStyle |-> get("S3_PATH_STYLE", Bool(TRUE))]

nodeEnv == get("NODE_ENVIRONMENT", Str(S_development))

isProduction == nodeEnv.t = "string" /\ nodeEnv.v = S_production

security ==
  LET whitelist ==
        FilterBoolean(MapTrim(Split(get("SECURITY_ALLOWED_HOSTS", Str(<<>>)).v, ",")))
  IN [allowedHosts |-> whitelist]

----------------------------------------------------------------------------
(* Environment values the configuration is read from *)

RECURSIVE Spaces(_)
Spaces(n) == IF n = 0 THEN <<>> ELSE <<" ">> \o Spaces(n - 1)

Pads == {Spaces(n) : n \in 0..MaxPad}

Padded(cores) == {l \o c \o r : l \in Pads, c \in cores, r \in Pads}

NodeEnvValues ==
  {Undef} \cup {Str(s) : s \in Padded({<<>>, <<"\t">>, S_production, S_Production, S_staging})}

HostEntries == Padded({<<>>, S_a_io, S_b_io})

RECURSIVE JoinComma(_)
JoinComma(l) ==
  IF l = <<>> THEN <<>>
  ELSE IF Len(l) = 1 THEN l[1]
  ELSE l[1] \o <<",">> \o JoinComma(Tail(l))

HostLists == UNION {[1..n -> HostEntries] : n \in 0..MaxHosts}

AllowedHostsValues == {Undef} \cup {Str(JoinComma(l)) : l \in HostLists}

----------------------------------------------------------------------------
(* Values of the variables of the parts a specification leaves out *)

BackendIdle ==
  /\ bpc = "create"
  /\ closeState = "open"
  /\ exited = "no"
  /\ lastSignal = "none"
  /\ reqLog = <<>>

NoClient == [t |-> "none"]

S3Idle ==
  /\ s3Client = NoClient
  /\ s3pc = "new"
  /\ calls = <<>>
  /\ inFlight = {}
  /\ results = <<>>
  /\ errors = <<>>
  /\ sent = <<>>

Restaurants == {"r1", "r2", "r3"}

(* MENU_QUERY_KEYS.byRestaurant *)
byRestaurant(restaurantId) == <<"menu", restaurantId>>

QueryKeys == {byRestaurant(r) : r \in Restaurants}

NoHook == [t |-> "none"]
Idle == [t |-> "idle"]
NoData == [t |-> "nodata"]

MenuIdle ==
  /\ idRef = "r1"
  /\ hook = NoHook
  /\ fetching = Idle
  /\ cache = [k \in QueryKeys |-> NoData]

ConfigIdle ==
  /\ nodeEnvRes = Unread
  /\ hostsRes = Unread

----------------------------------------------------------------------------
(* Reading the configuration *)

(* the getters read separate keys: one key is varied at a time *)
InitConfig ==
  /\ env \in {[k \in EnvKeys |-> IF k = "NODE_ENVIRONMENT" THEN a ELSE Undef] :
               a \in NodeEnvValues}
          \cup
             {[k \in EnvKeys |-> IF k = "SECURITY_ALLOWED_HOSTS" THEN b ELSE Undef] :
               b \in AllowedHostsValues}
  /\ nodeEnvRes = Unread
  /\ isProdRes = Unread
  /\ hostsRes = Unread
  /\ BackendIdle
  /\ S3Idle
  /\ MenuIdle

ReadNodeEnv ==
  /\ nodeEnvRes = Unread
  /\ nodeEnvRes' = nodeEnv
  /\ UNCHANGED <<env, isProdRes, hostsRes, beVars, s3Vars, menuVars>>

ReadIsProduction ==
  /\ isProdRes = Unread
  /\ isProdRes' = Bool(isProduction)
  /\ UNCHANGED <<env, nodeEnvRes, hostsRes, beVars, s3Vars, menuVars>>

ReadSecurity ==
  /\ hostsRes = Unread
  /\ hostsRes' = List(security.allowedHosts)
  /\ UNCHANGED <<env, nodeEnvRes, isProdRes, beVars, s3Vars, menuVars>>

NextConfig == ReadNodeEnv \/ ReadIsProduction \/ ReadSecurity

SpecConfig == InitConfig /\ [][NextConfig]_vars

----------------------------------------------------------------------------
(* Properties of the configuration reader *)

IsBlank(x) == x.t = "undefined" \/ \A k \in 1..Len(x.v) : IsSpace(x.v[k])

NoEdgeSpace(r) == r # <<>> /\ ~IsSpace(r[1]) /\ ~IsSpace(r[Len(r)])

(* r is s with the blanks around it removed *)
IsTrimOf(r, s) ==
  /\ NoEdgeSpace(r)
  /\ \E i \in 1..Len(s) :
        LET j == i + Len(r) - 1 IN
        /\ j <= Len(s)
        /\ r = SubSeq(s, i, j)
        /\ \A k \in 1..(i - 1) : IsSpace(s[k])
        /\ \A k \in (j + 1)..Len(s) : IsSpace(s[k])

DefaultedOK(key, defaultValue, res) ==
  IF IsBlank(env[key]) THEN res = defaultValue
  ELSE res.t = "string" /\ IsTrimOf(res.v, env[key].v)

TrimsToProduction ==
  ~IsBlank(env["NODE_ENVIRONMENT"]) /\ IsTrimOf(S_production, env["NODE_ENVIRONMENT"].v)

(* C9 (amended): a key read through get with a default yields the trimmed   *)
(* environment value when that is non-empty and the default when the        *)
(* variable is unset, empty or blank; nodeEnv is 'development' when         *)
(* NODE_ENVIRONMENT is unset or blank and its trimmed value otherwise;      *)
(* isProduction is true exactly when NODE_ENVIRONMENT trims to 'production';*)
(* allowedHosts has no empty or untrimmed entry and is empty when           *)
(* SECURITY_ALLOWED_HOSTS is unset or blank.                                *)
C9_ConfigDefaulting ==
  /\ nodeEnvRes.t # "unread" =>
        DefaultedOK("NODE_ENVIRONMENT", Str(S_development), nodeEnvRes)
  /\ isProdRes.t # "unread" => (isProdRes.v <=> TrimsToProduction)
  /\ hostsRes.t # "unread" =>
        /\ \A i \in 1..Len(hostsRes.v) : NoEdgeSpace(hostsRes.v[i])
        /\ IsBlank(env["SECURITY_ALLOWED_HOSTS"]) => hostsRes.v = <<>>
        /\ DefaultedOK("SECURITY_ALLOWED_HOSTS", Str(<<>>),
                       get("SECURITY_ALLOWED_HOSTS", Str(<<>>)))

(* a padded two-entry host list was read, and the defaulted nodeEnv *)
C9_Witness ==
  /\ hostsRes.t = "list" /\ Len(hostsRes.v) = 2
  /\ env["SECURITY_ALLOWED_HOSTS"].v # JoinComma(hostsRes.v)
  /\ nodeEnvRes = Str(S_development)
  /\ isProdRes.t = "boolean" /\ ~isProdRes.v

(* C9 as stated: additionally nodeEnv is 'development' unless               *)
(* NODE_ENVIRONMENT trims to exactly 'production'.                          *)
C9_Original ==
  /\ C9_ConfigDefaulting
  /\ nodeEnvRes.t # "unread" =>
        (TrimsToProduction \/ (nodeEnvRes = Str(S_development) /\ ~isProduction))

----------------------------------------------------------------------------
(* SecurityMiddleware *)

Includes(l, x) == \E i \in 1..Len(l) : l[i] = x

(* req.headers.host?.split(':')[0] *)
hostOf(header) ==
  IF header.t = "undefined" THEN Undef ELSE Str(Split(header.v, ":")[1])

(* SecurityMiddleware.use: the exception thrown, if any, and the calls of next() *)
use(header) ==
  LET allowedHosts == security.allowedHosts
      host == hostOf(header)
  IN IF Len(allowedHosts) > 0 /\ JsBoolean(host) /\ ~Includes(allowedHosts, host.v)
       THEN [thrown |-> "Invalid Host Header", nextCalls |-> 0]
       ELSE [thrown |-> "none", nextCalls |-> 1]

----------------------------------------------------------------------------
(* main.ts: bootstrap, serving, signal handlers *)

Signals == {"SIGTERM", "SIGINT"}

(* the awaited steps of bootstrap(), in order *)
BootSteps ==
  <<"create", "cookie", "helmet", "cors", "compress", "multipart",
    "swagger", "swaggerUi", "signals", "listen", "running">>

StepIndex(step) == CHOOSE i \in 1..Len(BootSteps) : BootSteps[i] = step

(* the step after `step`; the two Swagger registrations are skipped when isProd *)
NextStep(step, isProd) ==
  IF step = "multipart" /\ isProd THEN "signals"
  ELSE BootSteps[StepIndex(step) + 1]

HostHeaders ==
  {Undef} \cup
  {Str(h) : h \in {<<>>, <<":">> \o S_80, S_a_io, S_a_io \o <<":">> \o S_80,
                   S_b_io, S_c_io, S_c_io \o <<":">> \o S_80}}

InitBackend ==
  /\ env \in {[k \in EnvKeys |->
                 CASE k = "NODE_ENVIRONMENT" -> a
                   [] k = "SECURITY_ALLOWED_HOSTS" -> b
                   [] OTHER -> Undef] :
               a \in {Undef, Str(S_production)},
               b \in {Undef, Str(S_a_io), Str(S_a_io \o <<",", " ">> \o S_b_io)}}
  /\ ConfigIdle
  /\ isProdRes = Unread
  /\ BackendIdle
  /\ S3Idle
  /\ MenuIdle

(* one awaited step of bootstrap() completes; `const isProd` is read after create *)
BootstrapStep ==
  /\ exited = "no"
  /\ bpc # "running"
  /\ isProdRes' = IF bpc = "create" THEN Bool(isProduction) ELSE isProdRes
  /\ bpc' = NextStep(bpc, isProdRes'.v)
  /\ UNCHANGED <<env, nodeEnvRes, hostsRes, closeState, exited, lastSignal, reqLog, s3Vars, menuVars>>

(* an awaited step of bootstrap() rejects: bootstrap().catch exits with code 1 *)
BootstrapFail ==
  /\ exited = "no"
  /\ bpc \notin {"signals", "running"}
  /\ exited' = "exit1"
  /\ UNCHANGED <<env, cfgVars, bpc, closeState, lastSignal, reqLog, s3Vars, menuVars>>

(* a request passes through the middleware applied forRoutes('*') *)
HandleRequest(header) ==
  /\ exited = "no"
  /\ bpc = "running"
  /\ Len(reqLog) < MaxReqs
  /\ reqLog' = Append(reqLog, [host |-> header] @@ use(header))
  /\ UNCHANGED <<env, cfgVars, bpc, closeState, exited, lastSignal, s3Vars, menuVars>>

(* the handler installed by process.on(signal, ...): log, void app.close(), exit(0) *)
OnSignal(sig) ==
  /\ exited = "no"
  /\ bpc \in {"listen", "running"}
  /\ lastSignal' = sig
  /\ closeState' = "closing"
  /\ exited' = "exit0"
  /\ UNCHANGED <<env, cfgVars, bpc, reqLog, s3Vars, menuVars>>

NextBackend ==
  \/ BootstrapStep
  \/ BootstrapFail
  \/ \E h \in HostHeaders : HandleRequest(h)
  \/ \E sig \in Signals : OnSignal(sig)

SpecBackend == InitBackend /\ [][NextBackend]_vars

----------------------------------------------------------------------------
(* Properties of the middleware and of shutdown *)

(* p is the part of s before its first sep (all of s when it has none) *)
IsPartBefore(p, s, sep) ==
  /\ Len(p) <= Len(s)
  /\ p = SubSeq(s, 1, Len(p))
  /\ \A k \in 1..Len(p) : p[k] # sep
  /\ Len(p) < Len(s) => s[Len(p) + 1] = sep

(* p is the part of the header value s before its first ':' *)
IsHostPart(p, s) == IsPartBefore(p, s, ":")

(* the header is present and its host part is one of the allowed hosts *)
HostAllowed(header) ==
  /\ header.t = "string"
  /\ \E i \in 1..Len(security.allowedHosts) :
        IsHostPart(security.allowedHosts[i], header.v)

(* C1: with a non-empty allowedHosts, next() is called only for requests    *)
(* whose Host header, port removed, is in allowedHosts; requests with a     *)
(* missing Host header or an empty host part included.                      *)
C1_HostAllowList ==
  \A i \in 1..Len(reqLog) :
    (Len(security.allowedHosts) > 0 /\ reqLog[i].nextCalls > 0)
      => HostAllowed(reqLog[i].host)

(* C2: a request with a Host header whose host part is not in a non-empty   *)
(* allowedHosts gets BadRequestException('Invalid Host Header') and no      *)
(* next(); every request gets exactly one of the exception and one next().  *)
C2_HostMismatchThrows ==
  \A i \in 1..Len(reqLog) :
    /\ (/\ reqLog[i].host.t = "string"
        /\ Len(security.allowedHosts) > 0
        /\ ~HostAllowed(reqLog[i].host))
         => (reqLog[i].thrown = "Invalid Host Header" /\ reqLog[i].nextCalls = 0)
    /\ \/ reqLog[i].thrown # "none" /\ reqLog[i].nextCalls = 0
       \/ reqLog[i].thrown = "none" /\ reqLog[i].nextCalls = 1

(* C7: once a SIGTERM or SIGINT handler has run and the process has exited, *)
(* app.close() has completed.                                               *)
C7_GracefulShutdown ==
  (lastSignal \in Signals /\ exited # "no") => closeState = "closed"

----------------------------------------------------------------------------
(* S3Service *)

dangerous == {S_text_html, S_xhtml, S_svg, S_text_xml, S_app_xml}

sanitizeContentType_caseSensitive(contentType) ==
  LET normalized == Trim(Split(contentType, ";")[1]) IN
  IF normalized \in dangerous THEN S_text_plain ELSE contentType

sanitizeContentType(contentType) ==
  LET normalized == Trim(Split(ToLowerCase(contentType), ";")[1]) IN
  IF normalized \in dangerous THEN S_text_plain ELSE contentType

(* What follows the completion of each call of onModuleInit: the next call   *)
(* to issue, "throw" (onModuleInit rejects) or "return" (it resolves).       *)

AfterHeadBucket_alwaysCreate(ok) == "CreateBucket"

(* ensureBucketExists: a failed HeadBucket is caught and CreateBucket is sent *)
AfterHeadBucket(ok) == IF ok THEN "PutBucketPolicy" ELSE "CreateBucket"

(* ensureBucketExists: CreateBucket is awaited inside the catch block, unguarded *)
AfterCreateBucket(ok) == IF ok THEN "PutBucketPolicy" ELSE "throw"

AfterPutBucketPolicy_rethrow(ok) == IF ok THEN "PrefixUpload" ELSE "throw"

(* ensureBucketPolicy: the catch block logs and does not throw *)
AfterPutBucketPolicy(ok) == "PrefixUpload"

AfterPrefixUpload_rethrow(ok) == IF ok THEN "return" ELSE "throw"

(* ensurePrefixObject: the catch block logs and does not throw *)
AfterPrefixUpload(ok) == "return"

(* the completion of call `done` with outcome ok, followed by `next` *)
Continue(done, ok, next) ==
  /\ results' = Append(results, [call |-> done, ok |-> ok])
  /\ IF next \in {"throw", "return"}
       THEN /\ calls' = calls
            /\ inFlight' = inFlight \ {done}
            /\ s3pc' = IF next = "throw" THEN "rejected" ELSE "resolved"
       ELSE /\ calls' = Append(calls, next)
            /\ inFlight' = (inFlight \ {done}) \cup {next}
            /\ s3pc' = s3pc

PathStyleInputs == {Undef, Str(<<" ">>), Str(S_TRUE), Str(S_false), Str(S_0)}

ContentTypeParams == {<<>>, <<" ", ";", " ">> \o S_charset}

ContentTypes ==
  dangerous \cup {S_image_png, S_text_plain}
  \cup {l \o c \o p : l \in Pads,
                       c \in {S_TEXT_HTML, S_svg, S_image_png},
                       p \in ContentTypeParams}

InitS3 ==
  /\ env \in {[k \in EnvKeys |-> IF k = "S3_PATH_STYLE" THEN c ELSE Undef] :
               c \in PathStyleInputs}
  /\ ConfigIdle
  /\ isProdRes = Unread
  /\ BackendIdle
  /\ S3Idle
  /\ MenuIdle

(* constructor: reads config.s3 and builds the client *)
Construct ==
  /\ s3pc = "new"
  /\ s3Client' = [t |-> "client",
                  forcePathStyle |-> JsBoolean(s3Config.usePathStyle)]
  /\ s3pc' = "constructed"
  /\ UNCHANGED <<env, cfgVars, beVars, menuVars, calls, inFlight, results, errors, sent>>

(* constructor: new S3Client throws; the error is logged and rethrown *)
ConstructFail ==
  /\ s3pc = "new"
  /\ errors' = Append(errors, "Failed to create S3Client")
  /\ s3pc' = "ctor_failed"
  /\ UNCHANGED <<env, cfgVars, beVars, menuVars, s3Client, calls, inFlight, results, sent>>

(* onModuleInit enters ensureBucketExists and sends HeadBucket *)
OnModuleInit ==
  /\ s3pc = "constructed"
  /\ s3pc' = "init"
  /\ calls' = Append(calls, "HeadBucket")
  /\ inFlight' = inFlight \cup {"HeadBucket"}
  /\ UNCHANGED <<env, cfgVars, beVars, menuVars, s3Client, results, errors, sent>>

HeadBucketDone(ok) ==
  /\ "HeadBucket" \in inFlight
  /\ Continue("HeadBucket", ok, AfterHeadBucket(ok))
  /\ UNCHANGED <<env, cfgVars, beVars, menuVars, s3Client, errors, sent>>

CreateBucketDone(ok) ==
  /\ "CreateBucket" \in inFlight
  /\ Continue("CreateBucket", ok, AfterCreateBucket(ok))
  /\ UNCHANGED <<env, cfgVars, beVars, menuVars, s3Client, errors, sent>>

PutBucketPolicyDone(ok) ==
  /\ "PutBucketPolicy" \in inFlight
  /\ errors' = IF ok THEN errors
               ELSE Append(errors, "Failed to set bucket policy")
  /\ Continue("PutBucketPolicy", ok, AfterPutBucketPolicy(ok))
  /\ UNCHANGED <<env, cfgVars, beVars, menuVars, s3Client, sent>>

PrefixUploadDone(ok) ==
  /\ "PrefixUpload" \in inFlight
  /\ errors' = IF ok THEN errors
               ELSE Append(errors, "Failed to ensure prefix")
  /\ Continue("PrefixUpload", ok, AfterPrefixUpload(ok))
  /\ UNCHANGED <<env, cfgVars, beVars, menuVars, s3Client, sent>>

(* uploadObject: the content type is sanitised, then the upload is sent *)
uploadObject(key, contentType) ==
  /\ sent' = Append(sent, [Key |-> key,
                           given |-> contentType,
                           ContentType |-> sanitizeContentType(contentType)])
  /\ UNCHANGED <<env, cfgVars, beVars, menuVars, s3Client, s3pc, calls, inFlight, results, errors>>

UploadObject(key, contentType) ==
  /\ s3pc = "resolved"
  /\ Len(sent) < MaxUploads
  /\ uploadObject(key, contentType)

(* uploadImage: builds the key from the image prefix and calls uploadObject *)
UploadImage(filename, contentType) ==
  /\ s3pc = "resolved"
  /\ Len(sent) < MaxUploads
  /\ LET key == s3Config.imagePrefix.v \o <<"/">> \o filename
     IN uploadObject(key, contentType)

NextS3 ==
  \/ Construct
  \/ ConstructFail
  \/ OnModuleInit
  \/ \E ok \in BOOLEAN : HeadBucketDone(ok)
  \/ \E ok \in BOOLEAN : CreateBucketDone(ok)
  \/ \E ok \in BOOLEAN : PutBucketPolicyDone(ok)
  \/ \E ok \in BOOLEAN : PrefixUploadDone(ok)
  \/ \E ct \in ContentTypes : UploadObject(<<"k">>, ct)
  \/ \E ct \in ContentTypes : UploadImage(<<"f">>, ct)

SpecS3 == InitS3 /\ [][NextS3]_vars

----------------------------------------------------------------------------
(* Properties of S3Service *)

Issued(c) == Includes(calls, c)
Completed(c) == \E i \in 1..Len(results) : results[i].call = c
Failed(c) == \E i \in 1..Len(results) : results[i].call = c /\ ~results[i].ok
Succeeded(c) == \E i \in 1..Len(results) : results[i].call = c /\ results[i].ok

Rank(c) ==
  CASE c = "HeadBucket" -> 1
    [] c = "CreateBucket" -> 2
    [] c = "PutBucketPolicy" -> 3
    [] c = "PrefixUpload" -> 4

(* C3 (amended): onModuleInit continues after a failed HeadBucket (by       *)
(* sending CreateBucket), a failed PutBucketPolicy and a failed prefix      *)
(* upload, logging the last two; it resolves for every combination of       *)
(* failing calls in which CreateBucket does not fail, and rejects exactly   *)
(* when CreateBucket fails.                                                 *)
C3_BootstrapBestEffort ==
  /\ s3pc = "rejected" <=> Failed("CreateBucket")
  /\ Completed("PrefixUpload") => s3pc = "resolved"
  /\ s3pc = "init" => inFlight # {}
  /\ Failed("PutBucketPolicy") => Includes(errors, "Failed to set bucket policy")
  /\ Failed("PrefixUpload") => Includes(errors, "Failed to ensure prefix")

(* HeadBucket, PutBucketPolicy and the prefix upload all failed, and        *)
(* onModuleInit resolved                                                    *)
C3_Witness ==
  /\ s3pc = "resolved"
  /\ Failed("HeadBucket")
  /\ Failed("PutBucketPolicy")
  /\ Failed("PrefixUpload")

(* C3 as stated: onModuleInit resolves without throwing for every           *)
(* combination of failing calls.                                            *)
C3_Original == s3pc # "rejected"

(* C4: when the bucket exists or was created and PutBucketPolicy fails,     *)
(* onModuleInit does not reject: the prefix upload is issued after it, and  *)
(* once that completes onModuleInit has resolved.                           *)
C4_PolicyFailureNonFatal ==
  Failed("PutBucketPolicy") =>
    /\ Succeeded("HeadBucket") \/ Succeeded("CreateBucket")
    /\ s3pc \in {"init", "resolved"}
    /\ Issued("PrefixUpload")
    /\ calls[Len(calls)] = "PrefixUpload"
    /\ Completed("PrefixUpload") <=> s3pc = "resolved"

C4_Witness ==
  /\ Failed("PutBucketPolicy")
  /\ Completed("PrefixUpload")
  /\ s3pc = "resolved"

(* C5: the calls of one onModuleInit are issued in the order HeadBucket,    *)
(* CreateBucket (sent exactly when HeadBucket failed), PutBucketPolicy,     *)
(* prefix upload; each at most once, each only after the previous one has   *)
(* completed, never two in flight.                                          *)
C5_SequentialNoRetry ==
  /\ Cardinality(inFlight) <= 1
  /\ \A i \in 1..Len(calls) : \A j \in 1..Len(calls) :
        i < j => Rank(calls[i]) < Rank(calls[j])
  /\ Issued("CreateBucket") <=> Failed("HeadBucket")
  /\ \A i \in 1..(Len(calls) - 1) : Completed(calls[i])
  /\ \A c \in inFlight : calls # <<>> /\ c = calls[Len(calls)] /\ ~Completed(c)
  /\ Len(results) <= Len(calls)
  /\ \A i \in 1..Len(results) : results[i].call = calls[i]

C5_Witness ==
  /\ calls = <<"HeadBucket", "CreateBucket", "PutBucketPolicy", "PrefixUpload">>
  /\ s3pc = "resolved"

(* the parts of s before its first sep: exactly one *)
PartsBefore(s, sep) ==
  {SubSeq(s, 1, n) : n \in {m \in 0..Len(s) : IsPartBefore(SubSeq(s, 1, m), s, sep)}}

(* x, lowercased, cut at its first ';' and trimmed, is one of the dangerous types *)
IsDangerous(x) ==
  \E low \in {ToLowerCase(x)} :
    \E part \in PartsBefore(low, ";") :
      \E d \in dangerous : IsTrimOf(d, part)

(* C6: the ContentType sent is 'text/plain' when the given type normalises  *)
(* to one of the five dangerous types and the given string otherwise; no    *)
(* upload is sent with a type that normalises to a dangerous one; and       *)
(* sanitising a sanitised value changes nothing.                            *)
C6_ContentTypeSanitised ==
  \A i \in 1..Len(sent) :
    \E given \in {sent[i].given} : \E out \in {sent[i].ContentType} :
      /\ out = IF IsDangerous(given) THEN S_text_plain ELSE given
      /\ ~IsDangerous(out)
      /\ sanitizeContentType(out) = out

(* an upper-case, padded, parameterised dangerous type was replaced, through *)
(* uploadImage                                                               *)
C6_Witness ==
  \E i \in 1..Len(sent) :
    /\ sent[i].given = <<" ">> \o S_TEXT_HTML \o <<" ", ";", " ">> \o S_charset
    /\ sent[i].ContentType = S_text_plain
    /\ sent[i].Key = S_images \o <<"/", "f">>

(* C10: forcePathStyle is true when S3_PATH_STYLE is unset or blank or a    *)
(* true word ('1', 'true', 'yes', 'y', 'on', any case), false for any other *)
(* non-blank string.                                                        *)
C10_PathStyleBoolean ==
  s3Client.t = "client" =>
    (s3Client.forcePathStyle <=>
       \/ IsBlank(env["S3_PATH_STYLE"])
       \/ \E w \in TrueWords : IsTrimOf(w, ToLowerCase(env["S3_PATH_STYLE"].v)))

----------------------------------------------------------------------------
(* Frontend: menuService and useGetMenu *)

(* the payload GET /api/v1/menu/:restaurantId answers with *)
Menu(restaurantId) == [t |-> "menu", restaurantId |-> restaurantId]

(* resolvedRestaurantId.value: unref of the hook's argument *)
resolvedRestaurantId == IF hook.reactive THEN idRef ELSE hook.arg

InitMenu ==
  /\ env = [k \in EnvKeys |-> Undef]
  /\ ConfigIdle
  /\ isProdRes = Unread
  /\ BackendIdle
  /\ S3Idle
  /\ idRef \in Restaurants
  /\ hook = NoHook
  /\ fetching = Idle
  /\ cache = [k \in QueryKeys |-> NoData]

(* useGetMenu(arg): the query key is built once, from the value at the call *)
useGetMenu(reactive, arg) ==
  /\ hook' = [t |-> "hook", reactive |-> reactive, arg |-> arg,
              queryKey |-> byRestaurant(arg)]
  /\ UNCHANGED <<env, cfgVars, beVars, s3Vars, idRef, fetching, cache>>

(* a component calls useGetMenu with a plain string *)
UseGetMenuStatic(restaurantId) ==
  /\ hook = NoHook
  /\ useGetMenu(FALSE, restaurantId)

(* a component calls useGetMenu with the ref *)
UseGetMenuRef ==
  /\ hook = NoHook
  /\ useGetMenu(TRUE, idRef)

(* the component owning the hook is unmounted; the query cache outlives it *)
Unmount ==
  /\ hook # NoHook
  /\ hook' = NoHook
  /\ UNCHANGED <<env, cfgVars, beVars, s3Vars, idRef, fetching, cache>>

(* the owner of the ref assigns a new restaurant id *)
SetRestaurantId(restaurantId) ==
  /\ restaurantId # idRef
  /\ idRef' = restaurantId
  /\ UNCHANGED <<env, cfgVars, beVars, s3Vars, hook, fetching, cache>>

(* the query runs queryFn (mount, refetch): menuService.getMenu(current id) *)
Fetch ==
  /\ hook # NoHook
  /\ fetching = Idle
  /\ fetching' = [t |-> "fetching", queryKey |-> hook.queryKey,
                  restaurantId |-> resolvedRestaurantId]
  /\ UNCHANGED <<env, cfgVars, beVars, s3Vars, idRef, hook, cache>>

(* the request resolves; the data is cached under the query's key *)
FetchResolve ==
  /\ fetching # Idle
  /\ cache' = [cache EXCEPT ![fetching.queryKey] = Menu(fetching.restaurantId)]
  /\ fetching' = Idle
  /\ UNCHANGED <<env, cfgVars, beVars, s3Vars, idRef, hook>>

(* the request rejects; the cached data is kept *)
FetchReject ==
  /\ fetching # Idle
  /\ fetching' = Idle
  /\ UNCHANGED <<env, cfgVars, beVars, s3Vars, idRef, hook, cache>>

NextMenu ==
  \/ \E r \in Restaurants : UseGetMenuStatic(r)
  \/ UseGetMenuRef
  \/ Unmount
  \/ \E r \in Restaurants : SetRestaurantId(r)
  \/ Fetch
  \/ FetchResolve
  \/ FetchReject

SpecMenu == InitMenu /\ [][NextMenu]_vars

(* C8: every menu fetched for restaurant r is cached under ['menu', r]; the *)
(* key in use and the id passed to menuService.getMenu never differ.        *)
C8_CacheKeyMatches ==
  /\ \A k \in QueryKeys :
        cache[k] # NoData => k = byRestaurant(cache[k].restaurantId)
  /\ fetching # Idle => fetching.queryKey = byRestaurant(fetching.restaurantId)

====
